---- MODULE Spec2Model ----
(***************************************************************************)
(* A model of the line-bot-taifex market data pipeline:                    *)
(*   - the crawlers of src/crawler (source chains, table scans),           *)
(*   - fetch_market_data of src/scheduler/market_data.py,                  *)
(*   - the market_reports collection of src/database/mongodb.py.           *)
(*                                                                         *)
(* Numbers are small integers.  An upstream document is modelled by what   *)
(* the parser of the code reads from it (the rows and cells it looks at),  *)
(* by a record whose kind is "fail" when the request failed.  Chinese       *)
(* keywords are written as sequences of ASCII syllables, one per character.*)
(***************************************************************************)
EXTENDS Integers, Sequences, FiniteSets, TLC

VARIABLES
    clock,            \* Taipei wall clock: [day, slot]
    upstream,         \* what the upstream sites serve: the kinds of days
    db,               \* the global db of mongodb.py and its unique index
    market_reports,   \* db[MARKET_REPORTS_COLLECTION]: a set of documents
    pc,               \* per thread: position in _task / background_fetch
    local,            \* per thread: the locals of the run
    fin,              \* input of the crawler function under study
    fout              \* its output (Pending before it has been applied)

pipeline_vars == <<clock, upstream, db, market_reports, pc, local>>

vars == <<pipeline_vars, fin, fout>>

\* Python's None where a dictionary is expected
None == [none |-> TRUE]

\* fout before the function has been applied
Pending == [pending |-> TRUE]


----------------------------------------------------------------------------
(* Values and small helpers *)

\* the net positions a document may show
NetValues == {-3, 0, 5}

abs(x) == IF x < 0 THEN -x ELSE x

Last(s) == s[Len(s)]

\* s is a contiguous part of t (Python's  s in t  on strings)
Contains(t, s) ==
    \E i \in 0..(Len(t) - Len(s)) :
        \A j \in 1..Len(s) : t[i + j] = s[j]

----------------------------------------------------------------------------
(* src/crawler/option_positions.py *)

default_option_positions_data(date) ==
    [date |-> date,
     foreign_call_net |-> 0, foreign_put_net |-> 0,
     foreign_call_net_change |-> 0, foreign_put_net_change |-> 0]

is_valid_option_data(data) ==
    /\ data # None
    /\ (data.foreign_call_net # 0 \/ data.foreign_put_net # 0)

\* The primary query (largeTraderOptQry, POST).  doc.kind is "fail" when
\* get_html_content returned None, else the nets extract_option_positions_data
\* reads from the page ([call, put], zeros when the rows are missing).
get_option_positions_data_by_date(date, doc) ==
    IF doc.kind = "fail"
    THEN default_option_positions_data(date)
    ELSE LET result == [default_option_positions_data(date) EXCEPT
                           !.foreign_call_net = doc.call,
                           !.foreign_put_net = doc.put]
         IN  IF ~is_valid_option_data(result)
             THEN default_option_positions_data(date)
             ELSE result

\* The JSON API (largeTraderOptDataDown).  doc.kind is "fail" when the request
\* raised or the body was no JSON (the function returns None), "nodata" when
\* the body has no 'data' key, else the netPosition values of the items.
get_option_positions_json_api(date, doc) ==
    IF doc.kind = "fail" THEN None
    ELSE IF doc.kind = "nodata" THEN default_option_positions_data(date)
    ELSE [default_option_positions_data(date) EXCEPT
             !.foreign_call_net = doc.call,
             !.foreign_put_net = doc.put]

\* The CSV download (largeTraderOptQryDown).  doc.kind is "fail" when the request
\* raised, "short" when fewer than two lines came back, else
\* [call_found, put_found, call, put]: whether a foreign call / put line was
\* found and buy - sell of that line.  The second scan of the lines (taken
\* when neither was found) only ever writes foreign_call_buy/foreign_put_buy,
\* because its  'foreign_call_buy' not in locals()  test is always true; it
\* sets no net value and no found flag.
\* Returns the result and whether the JSON API was contacted.
get_option_positions_alternative(date, doc, json_doc) ==
    IF doc.kind = "fail"
    THEN [result |-> default_option_positions_data(date), json |-> FALSE]
    ELSE IF doc.kind = "short"
    THEN [result |-> default_option_positions_data(date), json |-> FALSE]
    ELSE LET result == [default_option_positions_data(date) EXCEPT
                           !.foreign_call_net =
                               IF doc.call_found THEN doc.call ELSE 0,
                           !.foreign_put_net =
                               IF doc.put_found THEN doc.put ELSE 0]
         IN  IF ~(doc.call_found \/ doc.put_found)
             THEN LET json_result == get_option_positions_json_api(date, json_doc)
                  IN  IF json_result # None /\ is_valid_option_data(json_result)
                      THEN [result |-> json_result, json |-> TRUE]
                      ELSE [result |-> result, json |-> TRUE]
             ELSE [result |-> result, json |-> FALSE]

\* A request the crawler sent: which source, for which date.
Contact(src, date) == [src |-> src, date |-> date]

\* get_option_positions_data for trading date  date.  up[d] holds the
\* documents the three sources serve for date d.  Returns the dictionary the
\* function returns and the requests it sent, in order.
get_option_positions_data(date, up) ==
    LET today_data == get_option_positions_data_by_date(date, up[date].opt_primary)
        yesterday  == date - 1
        yesterday_data ==
            get_option_positions_data_by_date(yesterday, up[yesterday].opt_primary)
        alt == get_option_positions_alternative(date, up[date].opt_csv,
                                                up[date].opt_json)
        altContacts ==
            <<Contact("csv", date)>> \o
            (IF alt.json THEN <<Contact("json", date)>> ELSE <<>>)
        WithChange(data) ==
            [data EXCEPT
                !.foreign_call_net_change =
                    data.foreign_call_net - yesterday_data.foreign_call_net,
                !.foreign_put_net_change =
                    data.foreign_put_net - yesterday_data.foreign_put_net]
    IN  IF is_valid_option_data(today_data)
        THEN [data |-> WithChange(today_data),
              contacted |-> <<Contact("primary", date),
                              Contact("primary", yesterday)>>]
        ELSE IF is_valid_option_data(alt.result)
        THEN [data |-> WithChange(alt.result),
              contacted |-> <<Contact("primary", date)>> \o altContacts
                            \o <<Contact("primary", yesterday)>>]
        ELSE [data |-> yesterday_data,
              contacted |-> <<Contact("primary", date)>> \o altContacts
                            \o <<Contact("primary", yesterday)>>]

----------------------------------------------------------------------------
(* src/crawler/top_traders.py *)

default_top_traders_data(date) ==
    [date |-> date,
     top10_traders_net |-> 0, top10_specific_net |-> 0,
     top10_traders_net_change |-> 0, top10_specific_net_change |-> 0]

is_valid_top_traders_data(data) ==
    /\ data # None
    /\ (data.top10_traders_net # 0 \/ data.top10_specific_net # 0)

\* The primary query (largeTraderFutQry, POST); doc as for the option query:
\* "fail" or the nets [traders, specific] extract_top_traders_data reads.
get_top_traders_data_by_date(date, doc) ==
    IF doc.kind = "fail"
    THEN default_top_traders_data(date)
    ELSE LET result == [default_top_traders_data(date) EXCEPT
                           !.top10_traders_net = doc.traders,
                           !.top10_specific_net = doc.specific]
         IN  IF ~is_valid_top_traders_data(result)
             THEN default_top_traders_data(date)
             ELSE result

\* The JSON API (largeTraderFutDataDown): "fail", "nodata" or the buy - sell
\* differences of the items.
get_top_traders_json_api(date, doc) ==
    IF doc.kind = "fail" THEN None
    ELSE IF doc.kind = "nodata" THEN default_top_traders_data(date)
    ELSE [default_top_traders_data(date) EXCEPT
             !.top10_traders_net = doc.traders,
             !.top10_specific_net = doc.specific]

\* The CSV download (largeTraderFutQryDown): "fail", "short" or
\* [traders_found, specific_found, traders, specific]; a found flag is set by
\* the short-side line of its category, the net is buy - sell.
get_top_traders_alternative(date, doc, json_doc) ==
    IF doc.kind = "fail"
    THEN [result |-> default_top_traders_data(date), json |-> FALSE]
    ELSE IF doc.kind = "short"
    THEN [result |-> default_top_traders_data(date), json |-> FALSE]
    ELSE LET result == [default_top_traders_data(date) EXCEPT
                           !.top10_traders_net =
                               IF doc.traders_found THEN doc.traders ELSE 0,
                           !.top10_specific_net =
                               IF doc.specific_found THEN doc.specific ELSE 0]
         IN  IF ~(doc.traders_found \/ doc.specific_found)
             THEN LET json_result == get_top_traders_json_api(date, json_doc)
                  IN  IF json_result # None /\ is_valid_top_traders_data(json_result)
                      THEN [result |-> json_result, json |-> TRUE]
                      ELSE [result |-> result, json |-> TRUE]
             ELSE [result |-> result, json |-> FALSE]

get_top_traders_data(date, up) ==
    LET today_data == get_top_traders_data_by_date(date, up[date].top_primary)
        yesterday  == date - 1
        yesterday_data ==
            get_top_traders_data_by_date(yesterday, up[yesterday].top_primary)
        alt == get_top_traders_alternative(date, up[date].top_csv,
                                           up[date].top_json)
        altContacts ==
            <<Contact("csv", date)>> \o
            (IF alt.json THEN <<Contact("json", date)>> ELSE <<>>)
        WithChange(data) ==
            [data EXCEPT
                !.top10_traders_net_change =
                    data.top10_traders_net - yesterday_data.top10_traders_net,
                !.top10_specific_net_change =
                    data.top10_specific_net - yesterday_data.top10_specific_net]
    IN  IF is_valid_top_traders_data(today_data)
        THEN [data |-> WithChange(today_data),
              contacted |-> <<Contact("primary", date),
                              Contact("primary", yesterday)>>]
        ELSE IF is_valid_top_traders_data(alt.result)
        THEN [data |-> WithChange(alt.result),
              contacted |-> <<Contact("primary", date)>> \o altContacts
                            \o <<Contact("primary", yesterday)>>]
        ELSE [data |-> yesterday_data,
              contacted |-> <<Contact("primary", date)>> \o altContacts
                            \o <<Contact("primary", yesterday)>>]

----------------------------------------------------------------------------
(* Cell text: a string is a sequence of one-character strings *)

DigitChars == {"0", "1", "2", "3", "4", "5", "6", "7", "8", "9"}

DigitVal(c) ==
    CASE c = "0" -> 0 [] c = "1" -> 1 [] c = "2" -> 2 [] c = "3" -> 3
      [] c = "4" -> 4 [] c = "5" -> 5 [] c = "6" -> 6 [] c = "7" -> 7
      [] c = "8" -> 8 [] c = "9" -> 9

IsDigit(c) == c \in DigitChars

RECURSIVE DigitsToNat(_)
DigitsToNat(s) ==
    IF s = <<>> THEN 0
    ELSE 10 * DigitsToNat(SubSeq(s, 1, Len(s) - 1)) + DigitVal(Last(s))

AllDigits(s) == s # <<>> /\ \A i \in 1..Len(s) : IsDigit(s[i])

KeepIntChar(c) == IsDigit(c) \/ c = "-"

\* str.replace(',', '')
RemoveCommas(s) ==
    LET NotComma(c) == c # "," IN SelectSeq(s, NotComma)

\* safe_int on a string: keep the digits and '-', an empty rest or a lone '-'
\* gives the default, int(float(rest)) the value, a ValueError the default.
safe_int(value) ==
    LET rest == SelectSeq(value, KeepIntChar)
    IN  IF rest = <<>> \/ rest = <<"-">> THEN 0
        ELSE IF AllDigits(rest) THEN DigitsToNat(rest)
        ELSE IF rest[1] = "-" /\ AllDigits(Tail(rest))
             THEN 0 - DigitsToNat(Tail(rest))
        ELSE 0

----------------------------------------------------------------------------
(* src/crawler/futures.py: option positions (Excel page and backup page) *)

zero_options_positions ==
    [foreign_call_net |-> 0, foreign_put_net |-> 0,
     foreign_call_net_change |-> 0, foreign_put_net_change |-> 0]

\* the net value read from the net cell of the foreign call row
call_net_of(text) ==
    IF Contains(text, <<"4", ",", "5", "5", "2">>)
       \/ Contains(text, <<"4", "5", "5", "2">>)
    THEN 4552
    ELSE safe_int(RemoveCommas(text))

\* the net value read from the net cell of the foreign put row
put_net_of(text) ==
    IF Contains(text, <<"9", ",", "3", "4", "3">>)
       \/ Contains(text, <<"9", "3", "4", "3">>)
    THEN 9343
    ELSE safe_int(RemoveCommas(text))

\* The rows of the backup page (callsAndPutsDate): what its rows
\* give before the final substitution.  doc.kind is "fail" when the request
\* raised; doc.call_row / doc.put_row say whether a foreign row with a
\* numeric cell was found, doc.call_text / doc.put_text are those cells.
options_backup_rows(doc) ==
    [zero_options_positions EXCEPT
        !.foreign_call_net =
            IF doc.call_row THEN call_net_of(doc.call_text) ELSE 0,
        !.foreign_put_net =
            IF doc.put_row THEN put_net_of(doc.put_text) ELSE 0]

get_options_positions_backup(date, doc) ==
    IF doc.kind = "fail" THEN zero_options_positions
    ELSE LET result == options_backup_rows(doc)
         IN  IF result.foreign_call_net = 0 /\ result.foreign_put_net = 0
             THEN [result EXCEPT !.foreign_call_net = 4552,
                                 !.foreign_put_net = 9343]
             ELSE result

\* what the rows of the Excel page (callsAndPutsDateExcel) give
options_excel_rows(doc) ==
    [zero_options_positions EXCEPT
        !.foreign_call_net =
            IF doc.call_row THEN call_net_of(doc.call_text) ELSE 0,
        !.foreign_put_net =
            IF doc.put_row THEN put_net_of(doc.put_text) ELSE 0]

\* doc.kind is "fail" when the request raised, "notable" when no table with
\* the keywords was found (both return zeros at once), else "ok".
get_options_positions_data(date, doc, backup_doc) ==
    IF doc.kind = "fail" THEN zero_options_positions
    ELSE IF doc.kind = "notable" THEN zero_options_positions
    ELSE LET result == options_excel_rows(doc)
         IN  IF result.foreign_call_net = 0 /\ result.foreign_put_net = 0
             THEN LET backup_result == get_options_positions_backup(date, backup_doc)
                  IN  IF backup_result.foreign_call_net # 0
                         \/ backup_result.foreign_put_net # 0
                      THEN backup_result
                      ELSE result
             ELSE result

----------------------------------------------------------------------------
(* src/crawler/institutional_futures.py                                   *)
(* A table is a sequence of rows, a row a sequence of cells, a cell a tag *)
(* ("th" or "td") and its text.  A Chinese character is written as its    *)
(* syllable: one element of the text.  Python indexes from 0, so cell     *)
(* idx of the code is element idx + 1 here.                               *)

TaiGuQiHuo       == <<"tai", "gu", "qi", "huo">>
XiaoXingTaiZhiQiHuo == <<"xiao", "xing", "tai", "zhi", "qi", "huo">>
WaiZi            == <<"wai", "zi">>
WaiZiZiYing      == <<"wai", "zi", "zi", "ying">>

\* str.lower() on the letters the texts use
lower(text) ==
    [i \in 1..Len(text) |->
        CASE text[i] = "N" -> "n" [] text[i] = "E" -> "e"
          [] text[i] = "T" -> "t" [] OTHER -> text[i]]

RECURSIVE lstrip(_)
lstrip(text) ==
    IF text # <<>> /\ text[1] = " " THEN lstrip(Tail(text)) ELSE text

RECURSIVE rstrip(_)
rstrip(text) ==
    IF text # <<>> /\ Last(text) = " "
    THEN rstrip(SubSeq(text, 1, Len(text) - 1)) ELSE text

strip(text) == rstrip(lstrip(text))

default_institutional_futures_data ==
    [foreign_tx_net |-> 0, foreign_mtx_net |-> 0]

\* row.find_all('td')
td_cells(row) == LET IsTd(c) == c.tag = "td" IN SelectSeq(row, IsTd)

\* the test on a header cell's text, lines 105-107
is_net_header(cell) ==
    LET text == lower(strip(cell.text))
    IN  \/ Contains(text, <<"mai3", "mai4">>) /\ Contains(text, <<"cha", "e">>)
        \/ Contains(text, <<"duo", "kong">>) /\ Contains(text, <<"jing", "e">>)
        \/ Contains(text, <<"n", "e", "t">>)

\* the inner loop over one header row: the first matching cell's index, or
\* prev when no cell matches
header_row_idx(row, prev) ==
    IF \E i \in 1..Len(row) : is_net_header(row[i])
    THEN (CHOOSE i \in 1..Len(row) :
              /\ is_net_header(row[i])
              /\ \A j \in 1..(i - 1) : ~is_net_header(row[j])) - 1
    ELSE prev

\* lines 100-108: the loop over the first two rows
header_net_position_idx(table) ==
    LET first == IF Len(table) >= 1 THEN header_row_idx(table[1], -1) ELSE -1
    IN  IF Len(table) >= 2 THEN header_row_idx(table[2], first) ELSE first

\* lines 111-126: the first of 8, 9, 10 that is below the widest row's width
positional_net_position_idx(table) ==
    LET max_cols ==
            IF table = <<>> THEN 0
            ELSE CHOOSE m \in {Len(table[i]) : i \in 1..Len(table)} :
                     \A i \in 1..Len(table) : Len(table[i]) <= m
        fits == {idx \in {8, 9, 10} : idx < max_cols}
    IN  IF fits = {} THEN -1
        ELSE CHOOSE idx \in fits : \A other \in fits : idx <= other

\* which strategy gives the column, and the column
net_position_strategy(table) ==
    IF header_net_position_idx(table) # -1 THEN "header" ELSE "positional"

net_position_idx_of(table) ==
    IF header_net_position_idx(table) # -1
    THEN header_net_position_idx(table)
    ELSE positional_net_position_idx(table)

\* lines 133-136: the row is a contract title row, and of which contract
title_of(first_cell_text) ==
    IF Contains(first_cell_text, TaiGuQiHuo)
       \/ Contains(first_cell_text, <<"T", "X">>)
    THEN "TX"
    ELSE IF Contains(first_cell_text, XiaoXingTaiZhiQiHuo)
            \/ Contains(first_cell_text, <<"M", "T", "X">>)
    THEN "MTX"
    ELSE "none"

\* lines 143-172: what one data row does to the result
read_foreign_row(cells, contract_type, result, net_position_idx) ==
    LET identity_cell == strip(cells[2].text)
        net_text == RemoveCommas(strip(cells[net_position_idx + 1].text))
        net_position == safe_int(net_text)
    IN  IF /\ Len(cells) > 1
           /\ contract_type # "none"
           /\ (Contains(identity_cell, WaiZi)
               \/ Contains(identity_cell, <<"F", "o", "r", "e", "i", "g", "n">>))
           /\ ~Contains(identity_cell, WaiZiZiYing)
           /\ net_position_idx < Len(cells)
           /\ net_text # <<>> /\ net_text # <<"-">> /\ net_text # <<"-", "-">>
           /\ net_position # 0
        THEN IF contract_type = "TX"
             THEN [result EXCEPT !.foreign_tx_net = net_position]
             ELSE [result EXCEPT !.foreign_mtx_net = net_position]
        ELSE result

\* lines 129-177: the loop over the rows
RECURSIVE scan_rows(_, _, _, _, _)
scan_rows(table, i, contract_type, result, net_position_idx) ==
    IF i > Len(table) THEN result
    ELSE LET cells == td_cells(table[i])
             first_cell_text == IF cells # <<>> THEN strip(cells[1].text) ELSE <<>>
         IN  IF Len(cells) < net_position_idx + 1
             THEN scan_rows(table, i + 1, contract_type, result, net_position_idx)
             ELSE IF title_of(first_cell_text) # "none"
             THEN scan_rows(table, i + 1, title_of(first_cell_text), result,
                            net_position_idx)
             ELSE scan_rows(table, i + 1, contract_type,
                            read_foreign_row(cells, contract_type, result,
                                             net_position_idx),
                            net_position_idx)

\* doc.kind is "fail" when the request raised, "notable" when no table names
\* either contract, else "ok" with doc.table the table found.
get_institutional_futures_by_date(date, doc) ==
    IF doc.kind # "ok" THEN default_institutional_futures_data
    ELSE IF net_position_idx_of(doc.table) = -1
    THEN default_institutional_futures_data
    ELSE scan_rows(doc.table, 1, "none", default_institutional_futures_data,
                   net_position_idx_of(doc.table))

----------------------------------------------------------------------------
(* src/crawler/utils.py: the clock and the trading date                   *)
(* A time is a day number and a part of the day: "preopen" (before 9:00), *)
(* "open" (9:00 to 13:30) or "closed" (13:30 on).  Day 1 is a Friday.     *)

\* datetime.weekday(): 0 is Monday, 5 and 6 the weekend
weekday(day) == (day + 3) % 7

is_taiwan_market_closed(now) ==
    IF weekday(now.day) >= 5 THEN TRUE
    ELSE now.slot = "closed" \/ now.slot = "preopen"

get_tw_stock_date(now) ==
    IF weekday(now.day) >= 5 THEN now.day - (weekday(now.day) - 4)
    ELSE IF is_taiwan_market_closed(now) THEN now.day
    ELSE IF weekday(now.day) = 0 THEN now.day - 3
    ELSE now.day - 1

----------------------------------------------------------------------------
(* src/crawler/taiex.py.  Amounts are whole numbers here.                 *)

zero_taiex_data(date) ==
    [date |-> date, close |-> 0, change |-> 0, change_percent |-> 0,
     volume |-> 0]

\* doc.kind: "fail" the request raised; "notable" the page has no table;
\* "norow" no row is the weighted index; "shortrow" the row lacks cells;
\* "ok" the row, with doc.vol the second page: "fail", "norow" or "ok".
get_taiex_data(date, doc) ==
    CASE doc.kind = "fail"     -> zero_taiex_data(date)
      [] doc.kind = "notable"  -> None
      [] doc.kind = "norow"    -> None
      [] doc.kind = "shortrow" -> zero_taiex_data(date)
      [] OTHER ->
           LET change_sign == IF doc.sign = "+" THEN 1 ELSE -1
           IN  IF doc.vol.kind = "fail" THEN zero_taiex_data(date)
               ELSE [date |-> date,
                     close |-> doc.close,
                     change |-> doc.change * change_sign,
                     change_percent |-> doc.change_percent * change_sign,
                     volume |-> IF doc.vol.kind = "norow" THEN 0
                                ELSE doc.vol.volume]

----------------------------------------------------------------------------
(* src/crawler/institutional.py.  Amounts are in hundredths of 10^8, so   *)
(* the code's 0.01 is 1 and its 1.0 is 100.                               *)

default_institutional_data(date) ==
    [date |-> date, foreign |-> 0, investment_trust |-> 0, dealer_self |-> 0,
     dealer_hedge |-> 0, dealer |-> 0, total |-> 0]

\* alt.kind: "fail" (the request raised or stat is not OK: None) or "ok"
get_institutional_alternate(date, alt) ==
    IF alt.kind = "ok"
    THEN [default_institutional_data(date) EXCEPT !.foreign = alt.foreign]
    ELSE None

get_institutional_investors_data(date, doc, alt) ==
    IF doc.kind # "ok" THEN default_institutional_data(date)
    ELSE LET rows == [default_institutional_data(date) EXCEPT
                         !.foreign = doc.foreign,
                         !.investment_trust = doc.investment_trust,
                         !.dealer_self = doc.dealer_self,
                         !.dealer_hedge = doc.dealer_hedge,
                         !.dealer = doc.dealer_self + doc.dealer_hedge,
                         !.total = doc.total]
             alternate_result == get_institutional_alternate(date, alt)
             first == IF abs(rows.foreign) < 1 /\ abs(rows.total) > 100
                         /\ alternate_result # None
                         /\ abs(alternate_result.foreign) > 1
                      THEN [rows EXCEPT !.foreign = alternate_result.foreign]
                      ELSE rows
         IN  IF /\ abs(first.total - (first.foreign + first.investment_trust
                                      + first.dealer)) > 100
                /\ abs(first.total) > 100
                /\ abs(first.foreign) < 1
             THEN [first EXCEPT !.foreign =
                       first.total - first.investment_trust - first.dealer]
             ELSE first

----------------------------------------------------------------------------
(* src/crawler/vix.py.  The index is a whole number here.                 *)

\* doc.kind: "fail" the request raised; "nodata" the file says no data or
\* is empty; "noparse" no number is found; "ok" with doc.vix
get_vix_data_by_date(date, doc) ==
    IF doc.kind = "ok" THEN doc.vix ELSE 0

\* up[d].vix is the file served for day d
get_vix_data(date, up) ==
    IF up[date].vix.kind = "fail" THEN 0
    ELSE IF up[date].vix.kind = "nodata"
    THEN get_vix_data_by_date(date - 1, up[date - 1].vix)
    ELSE get_vix_data_by_date(date, up[date].vix)

----------------------------------------------------------------------------
(* crawler.pc_ratio.get_pc_ratio: imported by scheduler/market_data.py    *)
(* but not among the sources; it gives a dictionary whose oi_ratio is the *)
(* ratio read, or the default 0.                                          *)

get_pc_ratio(date, doc) ==
    IF doc.kind = "ok" THEN [date |-> date, oi_ratio |-> doc.oi_ratio]
    ELSE [date |-> date, oi_ratio |-> 0]

----------------------------------------------------------------------------
(* The documents a source may serve *)

Fail   == [kind |-> "fail"]
Short  == [kind |-> "short"]
NoData == [kind |-> "nodata"]

OptPrimaryDocs ==
    {Fail} \cup {[kind |-> "ok", call |-> c, put |-> p] :
                    c \in NetValues, p \in NetValues}

OptJsonDocs == {Fail, NoData} \cup (OptPrimaryDocs \ {Fail})

\* a line that was not found contributes no value
OptCsvDocs ==
    {Fail, Short} \cup
    {[kind |-> "ok", call_found |-> cf, put_found |-> pf,
      call |-> c, put |-> p] :
        cf \in BOOLEAN, pf \in BOOLEAN, c \in NetValues, p \in NetValues}

TopPrimaryDocs ==
    {Fail} \cup {[kind |-> "ok", traders |-> c, specific |-> p] :
                    c \in NetValues, p \in NetValues}

TopJsonDocs == {Fail, NoData} \cup (TopPrimaryDocs \ {Fail})

TopCsvDocs ==
    {Fail, Short} \cup
    {[kind |-> "ok", traders_found |-> cf, specific_found |-> pf,
      traders |-> c, specific |-> p] :
        cf \in BOOLEAN, pf \in BOOLEAN, c \in NetValues, p \in NetValues}

\* texts a net cell may show
NetCellTexts ==
    { <<>>, <<"-">>, <<"0">>,
      <<"1", ",", "2", "3", "4">>, <<"-", "5", "6", "7">>,
      <<"4", ",", "5", "5", "2">>, <<"1", "4", ",", "5", "5", "2">>,
      <<"-", "9", ",", "3", "4", "3">> }

HasDigit(s) == \E i \in 1..Len(s) : IsDigit(s[i])

NoRow == [row |-> FALSE, text |-> <<>>]

\* the foreign row of a table: absent, or present with its net cell
ExcelRows == {NoRow} \cup {[row |-> TRUE, text |-> t] : t \in NetCellTexts}

\* the backup page only takes a cell that holds a digit
BackupRows ==
    {NoRow} \cup {[row |-> TRUE, text |-> t] : t \in {x \in NetCellTexts : HasDigit(x)}}

OptionsPage(c, p) ==
    [kind |-> "ok", call_row |-> c.row, call_text |-> c.text,
     put_row |-> p.row, put_text |-> p.text]

OptionsExcelDocs ==
    {Fail, [kind |-> "notable"]}
    \cup {OptionsPage(c, p) : c \in ExcelRows, p \in ExcelRows}

OptionsBackupDocs ==
    {Fail} \cup {OptionsPage(c, p) : c \in BackupRows, p \in BackupRows}

\* The futures-contracts table, built from a few choices:
\*   width   cells per row;
\*   h1, h2  the column whose header cell names the net position in the first
\*           and second header row (-1: no such cell; h2 = -2: no second row);
\*   names   "cht" or "latin": how the title rows name the contracts;
\*   cells   what the foreign row of the first contract shows;
\*   middle  whether another contract's section stands between the two.
Th(text) == [tag |-> "th", text |-> text]
Td(text) == [tag |-> "td", text |-> text]

DigitOf(n) == CHOOSE c \in DigitChars : DigitVal(c) = n

\* the number cell of column i (from 0) in a row whose values start with base
ColText(base, i) == <<DigitOf(base), DigitOf(i \div 10), DigitOf(i % 10)>>

HeaderText(i) ==
    CASE i = 7 -> <<"N", "e", "t">>
      [] i = 8 -> <<"mai3", "mai4", "cha", "e">>
      [] OTHER -> <<" ", "duo", "kong", "jing", "e">>

HeaderRow(width, h) ==
    [i \in 1..width |->
        Th(IF i - 1 = h THEN HeaderText(h) ELSE <<"xiang", "mu">>)]

TitleRow(width, name) ==
    [i \in 1..width |-> Td(IF i = 1 THEN name ELSE <<>>)]

NumberCell(kind, base, i) ==
    CASE kind = "plain" -> ColText(base, i)
      [] kind = "comma" -> <<" ", "3", ",">> \o ColText(base, i)
      [] kind = "dash"  -> <<"-">>
      [] OTHER          -> <<"0">>

IdentityRow(width, identity, kind, base) ==
    [i \in 1..width |->
        Td(IF i = 1 THEN <<>>
           ELSE IF i = 2 THEN identity
           ELSE NumberCell(kind, base, i - 1))]

ContractName(names, contract) ==
    CASE contract = "TX"  -> (IF names = "cht" THEN TaiGuQiHuo ELSE <<"T", "X">>)
      [] contract = "MTX" -> (IF names = "cht" THEN XiaoXingTaiZhiQiHuo
                              ELSE <<"M", "T", "X">>)
      [] OTHER            -> <<"dian", "zi", "qi", "huo">>

Section(width, names, contract, kind, base) ==
    << TitleRow(width, ContractName(names, contract)),
       IdentityRow(width, <<"zi", "ying", "shang">>, "plain", base + 4),
       IdentityRow(width, WaiZi, kind, base) >>

FuturesTable(t) ==
    <<HeaderRow(t.width, t.h1)>>
    \o (IF t.h2 = -2 THEN <<>> ELSE <<HeaderRow(t.width, t.h2)>>)
    \o Section(t.width, t.names, "TX", t.cells, 1)
    \o (IF t.middle THEN Section(t.width, t.names, "TE", "plain", 3) ELSE <<>>)
    \o Section(t.width, t.names, "MTX", "plain", 2)

TableWidths == {8, 9, 11}

FuturesTableChoices ==
    {t \in [width : TableWidths, h1 : {-1, 7, 8, 9}, h2 : {-2, -1, 8, 9},
            names : {"cht", "latin"},
            cells : {"plain", "comma", "dash", "zero"}, middle : BOOLEAN] :
        t.h1 < t.width /\ t.h2 < t.width}

InstFuturesDocs ==
    {[kind |-> "fail"], [kind |-> "notable"]}
    \cup {[kind |-> "ok", choice |-> t, table |-> FuturesTable(t)] :
             t \in FuturesTableChoices}

TaiexDocs ==
    {[kind |-> k] : k \in {"fail", "notable", "norow", "shortrow"}}
    \cup {[kind |-> "ok", close |-> 100, sign |-> sg, change |-> c,
           change_percent |-> 1, vol |-> v] :
             sg \in {"+", "-", " "}, c \in {0, 2},
             v \in {[kind |-> "fail"], [kind |-> "norow"],
                    [kind |-> "ok", volume |-> 3]}}

InstitutionalDocs ==
    {[kind |-> "fail"], [kind |-> "notable"]}
    \cup {[kind |-> "ok", foreign |-> f, investment_trust |-> i,
           dealer_self |-> ds, dealer_hedge |-> 0, total |-> t] :
             f \in {0, 250}, i \in {0, -50}, ds \in {0, 30}, t \in {0, 500}}

InstitutionalAltDocs ==
    {[kind |-> "fail"]} \cup {[kind |-> "ok", foreign |-> f] : f \in {0, 300}}

\* what one date's documents look like to the two chains
ChainDocs(op, oc, oj, tp, tc, tj) ==
    [opt_primary |-> op, opt_csv |-> oc, opt_json |-> oj,
     top_primary |-> tp, top_csv |-> tc, top_json |-> tj]

----------------------------------------------------------------------------
(* src/scheduler/market_data.py: fetch_market_data, lines 39-150 *)

\* lines 88-92: the previous day's indicators are not read from the database
yesterday_vix_from_db(reports) ==
    IF reports = {} THEN 0
    ELSE (CHOOSE r \in reports :
              \A o \in reports : o.date <= r.date).market_indicators.vix

yesterday_vix(reports) == 0

\* The crawls and the dictionary assembled from them, at time  now  with
\* up  the documents served per date.  None stands for the exception that the
\* except clause of line 163 turns into a None result.
assemble_market_data(now, up, reports) ==
    LET date == get_tw_stock_date(now)
        taiex_data == get_taiex_data(date, up[date].taiex)
        institutional_data ==
            get_institutional_investors_data(date, up[date].institutional,
                                             up[date].institutional_alt)
        pc_ratio_data == get_pc_ratio(date, up[date].pc_ratio)
        vix_data == get_vix_data(date, up)
        top_traders_data == get_top_traders_data(date, up).data
        option_positions_data == get_option_positions_data(date, up).data
        institutional_futures_data ==
            get_institutional_futures_by_date(date, up[date].futures_contracts)
    IN  IF taiex_data = None THEN None
        ELSE
        [date |-> institutional_data.date,
         taiex |-> [close |-> taiex_data.close,
                    change |-> taiex_data.change,
                    change_percent |-> taiex_data.change_percent,
                    volume |-> taiex_data.volume],
         futures |-> [close |-> 0, change |-> 0, change_percent |-> 0,
                      bias |-> 0],
         institutional |->
            [total |-> institutional_data.total,
             foreign |-> institutional_data.foreign,
             investment_trust |-> institutional_data.investment_trust,
             dealer |-> institutional_data.dealer,
             dealer_self |-> institutional_data.dealer_self,
             dealer_hedge |-> institutional_data.dealer_hedge],
         futures_positions |->
            [foreign_tx_net |-> institutional_futures_data.foreign_tx_net,
             foreign_tx_net_change |-> 0,
             foreign_mtx_net |-> institutional_futures_data.foreign_mtx_net,
             foreign_mtx_net_change |-> 0,
             foreign_call_net |-> option_positions_data.foreign_call_net,
             foreign_call_net_change |->
                 option_positions_data.foreign_call_net_change,
             foreign_put_net |-> option_positions_data.foreign_put_net,
             foreign_put_net_change |->
                 option_positions_data.foreign_put_net_change,
             top10_traders_net |-> top_traders_data.top10_traders_net,
             top10_traders_net_change |->
                 top_traders_data.top10_traders_net_change,
             top10_specific_net |-> top_traders_data.top10_specific_net,
             top10_specific_net_change |->
                 top_traders_data.top10_specific_net_change],
         retail_positions |-> [mtx_net |-> 0, mtx_net_change |-> 0,
                               xmtx_net |-> 0, xmtx_net_change |-> 0],
         market_indicators |->
            [mtx_retail_ratio |-> 0, mtx_retail_ratio_prev |-> 0,
             xmtx_retail_ratio |-> 0, xmtx_retail_ratio_prev |-> 0,
             put_call_ratio |-> pc_ratio_data.oi_ratio,
             put_call_ratio_prev |-> 0,
             vix |-> vix_data,
             vix_prev |-> yesterday_vix(reports)]]

----------------------------------------------------------------------------
(* src/database/mongodb.py: save_market_report, lines 124-188 *)

\* the document written for report_data at time  now
market_report_document(report_data, now) ==
    [date |-> report_data.date,
     weekday |-> weekday(report_data.date),
     taiex |-> report_data.taiex,
     futures |-> report_data.futures,
     institutional |->
        [total |-> report_data.institutional.total,
         foreign |-> report_data.institutional.foreign,
         investment_trust |-> report_data.institutional.investment_trust,
         dealer |-> report_data.institutional.dealer,
         dealer_self |-> report_data.institutional.dealer_self,
         dealer_hedge |-> report_data.institutional.dealer_hedge,
         foreign_consecutive_days |-> 0,
         investment_trust_consecutive_days |-> 0,
         dealer_consecutive_days |-> 0],
     futures_positions |-> report_data.futures_positions,
     retail_positions |-> report_data.retail_positions,
     market_indicators |-> report_data.market_indicators,
     created_at |-> now,
     updated_at |-> now,
     is_pushed |-> FALSE,
     push_time |-> None]

\* a stored document: the fields written plus the _id
Stored(id, document) == [f \in DOMAIN document \cup {"_id"} |->
                            IF f = "_id" THEN id ELSE document[f]]

----------------------------------------------------------------------------
(* Spec: the scheduled task and the admin's manual update, each a thread  *)
(* running fetch_market_data once, against the same database.             *)

MaxDay == 2

Days == (-1)..MaxDay

Slots == <<"preopen", "open", "closed">>

\* what the sites serve for day d on a day of the given kind; on a "silent"
\* day the index site accepts the connection and never answers
DayDocs(kind, d) ==
    LET ok == kind \in {"good", "no_index_table"}
        quiet == kind = "holiday"
    IN  [taiex |->
            IF kind = "good"
            THEN [kind |-> "ok", close |-> 100 + d, sign |-> "-",
                  change |-> 2, change_percent |-> 1,
                  vol |-> [kind |-> "ok", volume |-> 3]]
            ELSE IF kind = "no_index_table" THEN [kind |-> "notable"]
            ELSE IF quiet THEN [kind |-> "norow"]
            ELSE IF kind = "silent" THEN [kind |-> "silent"]
            ELSE Fail,
         institutional |->
            IF ok THEN [kind |-> "ok", foreign |-> 250 + d,
                        investment_trust |-> -50, dealer_self |-> 30,
                        dealer_hedge |-> 0, total |-> 230 + d]
            ELSE IF quiet THEN [kind |-> "notable"] ELSE Fail,
         institutional_alt |-> Fail,
         pc_ratio |-> IF ok THEN [kind |-> "ok", oi_ratio |-> 90 + d] ELSE Fail,
         vix |-> IF ok THEN [kind |-> "ok", vix |-> 15 + d]
                 ELSE IF quiet THEN NoData ELSE Fail,
         opt_primary |->
            IF ok THEN [kind |-> "ok", call |-> 5 + d, put |-> -3]
            ELSE IF quiet THEN [kind |-> "ok", call |-> 0, put |-> 0]
            ELSE Fail,
         opt_csv |-> IF quiet THEN Short ELSE Fail,
         opt_json |-> IF quiet THEN NoData ELSE Fail,
         top_primary |->
            IF ok THEN [kind |-> "ok", traders |-> 5, specific |-> -3 + d]
            ELSE IF quiet THEN [kind |-> "ok", traders |-> 0, specific |-> 0]
            ELSE Fail,
         top_csv |-> IF quiet THEN Short ELSE Fail,
         top_json |-> IF quiet THEN NoData ELSE Fail,
         futures_contracts |->
            IF ok
            THEN [kind |-> "ok",
                  table |-> FuturesTable([width |-> 11, h1 |-> 8, h2 |-> -2,
                                          names |-> "cht", cells |-> "plain",
                                          middle |-> FALSE])]
            ELSE IF quiet THEN [kind |-> "notable"] ELSE Fail]

\* the kinds of the even and of the odd days
WorldKinds ==
    { <<"good", "good">>, <<"down", "good">>, <<"no_index_table", "good">>,
      <<"good", "holiday">>, <<"silent", "silent">> }

\* the documents served per date when the kinds of days are k
Served(k) == [d \in Days |-> DayDocs(IF d % 2 = 0 THEN k[1] ELSE k[2], d)]

Threads == {"task", "background_fetch"}

NoLocals ==
    [date |-> 0, market_data |-> None, matched |-> None, report_id |-> None]

Init ==
    /\ clock = [day |-> 1, slot |-> 1]
    /\ upstream \in WorldKinds
    /\ db = [connected |-> FALSE, unique_date |-> FALSE]
    /\ market_reports = {}
    /\ pc = [t \in Threads |-> "idle"]
    /\ local = [t \in Threads |-> NoLocals]
    /\ fin = None
    /\ fout = None

Now == [day |-> clock.day, slot |-> Slots[clock.slot]]

\* time passes
Tick ==
    /\ ~(clock.day = MaxDay /\ clock.slot = Len(Slots))
    /\ clock' = IF clock.slot = Len(Slots)
                THEN [day |-> clock.day + 1, slot |-> 1]
                ELSE [clock EXCEPT !.slot = @ + 1]
    /\ UNCHANGED <<upstream, db, market_reports, pc, local, fin, fout>>

\* market_data.py 255-283: delayed_fetch_and_push starts the thread, which
\* sleeps first
delayed_fetch_and_push ==
    /\ pc["task"] = "idle"
    /\ pc' = [pc EXCEPT !["task"] = "sleep"]
    /\ UNCHANGED <<clock, upstream, db, market_reports, local, fin, fout>>

\* market_data.py 264-272: after the sleep, nothing is done on a weekend
task_wake ==
    /\ pc["task"] = "sleep"
    /\ pc' = [pc EXCEPT !["task"] =
                 IF weekday(clock.day) >= 5 THEN "done" ELSE "fetch"]
    /\ UNCHANGED <<clock, upstream, db, market_reports, local, fin, fout>>

\* app.py 204-262: the admin's command starts background_fetch
background_fetch ==
    /\ pc["background_fetch"] = "idle"
    /\ pc' = [pc EXCEPT !["background_fetch"] = "fetch"]
    /\ UNCHANGED <<clock, upstream, db, market_reports, local, fin, fout>>

\* taiex.py 29: requests.get(url, headers=headers) is given no timeout, so
\* the call returns only if the server answers or the connection fails
requests_get_returns(doc) == doc.kind # "silent"

\* market_data.py 43-150 and 163-165: the crawls and the assembly
fetch_market_data(t) ==
    /\ pc[t] = "fetch"
    /\ requests_get_returns(Served(upstream)[get_tw_stock_date(Now)].taiex)
    /\ LET market_data ==
           assemble_market_data(Now, Served(upstream), market_reports)
       IN  /\ local' = [local EXCEPT ![t] =
                           [NoLocals EXCEPT !.date = get_tw_stock_date(Now),
                                            !.market_data = market_data]]
           /\ pc' = [pc EXCEPT ![t] =
                        IF market_data = None THEN "returned" ELSE "save"]
    /\ UNCHANGED <<clock, upstream, db, market_reports, fin, fout>>

\* the thread leaves save_market_report, and fetch_market_data, with None
ReturnNone(t) ==
    /\ local' = [local EXCEPT ![t].report_id = None]
    /\ pc' = [pc EXCEPT ![t] = "returned"]

\* mongodb.py 32-59, 61-88 and 100-103: get_db connects on first use and
\* sets the indexes up; an error while creating them is logged only.
\* Evaluating  not db  or the connection may raise.
save_market_report_begin(t) ==
    /\ pc[t] = "save"
    /\ \/ /\ db.connected
          /\ UNCHANGED <<db, local>>
          /\ pc' = [pc EXCEPT ![t] = "update_one"]
       \/ /\ ~db.connected
          /\ \E created \in BOOLEAN :
                db' = [connected |-> TRUE, unique_date |-> created]
          /\ UNCHANGED local
          /\ pc' = [pc EXCEPT ![t] = "update_one"]
       \/ /\ UNCHANGED db
          /\ ReturnNone(t)
    /\ UNCHANGED <<clock, upstream, market_reports, fin, fout>>

\* the documents the filter {"date": date_obj} matches
WithDate(date) == {r \in market_reports : r.date = date}

\* mongodb.py 191-195, in the server: update_one looks for a document that
\* matches the filter
update_one_match(t) ==
    /\ pc[t] = "update_one"
    /\ \/ /\ WithDate(local[t].market_data.date) = {}
          /\ local' = [local EXCEPT ![t].matched = None]
          /\ pc' = [pc EXCEPT ![t] = "upsert"]
       \/ /\ \E r \in WithDate(local[t].market_data.date) :
                local' = [local EXCEPT ![t].matched = r._id]
          /\ pc' = [pc EXCEPT ![t] = "upsert"]
       \/ ReturnNone(t)
    /\ UNCHANGED <<clock, upstream, db, market_reports, fin, fout>>

\* $set on the matched document
SetFields(id, document) ==
    {IF r._id = id THEN Stored(id, document) ELSE r : r \in market_reports}

\* a new ObjectId
NewId == [oid |-> Cardinality(market_reports) + 1]

\* mongodb.py 124-204: the document, the write of update_one and the id
\* returned.  The time in the document is the time of the write on this
\* clock.  With no match the document is inserted; the unique index on date
\* refuses a second document for the date, and the upsert is then retried
\* as an update or fails with DuplicateKeyError.
update_one_write(t) ==
    /\ pc[t] = "upsert"
    /\ LET document == market_report_document(local[t].market_data, Now)
           same == WithDate(document.date)
       IN  \/ /\ local[t].matched # None
              /\ market_reports' = SetFields(local[t].matched, document)
              /\ \E r \in same : local' = [local EXCEPT ![t].report_id = r._id]
              /\ pc' = [pc EXCEPT ![t] = "consecutive"]
           \/ /\ local[t].matched = None
              /\ ~(db.unique_date /\ same # {})
              /\ market_reports' = market_reports \cup {Stored(NewId, document)}
              /\ local' = [local EXCEPT ![t].report_id = NewId]
              /\ pc' = [pc EXCEPT ![t] = "consecutive"]
           \/ /\ local[t].matched = None
              /\ db.unique_date /\ same # {}
              /\ \/ \E r \in same :
                       /\ market_reports' = SetFields(r._id, document)
                       /\ local' = [local EXCEPT ![t].report_id = r._id]
                       /\ pc' = [pc EXCEPT ![t] = "consecutive"]
                 \/ /\ UNCHANGED market_reports
                    /\ ReturnNone(t)
    /\ UNCHANGED <<clock, upstream, db, fin, fout>>

\* mongodb.py 260-330: update_consecutive_days finds the latest report and
\* then uses timedelta, which the module does not import: the NameError is
\* caught and logged, nothing is written.  market_data.py 154-158.
update_consecutive_days(t) ==
    /\ pc[t] = "consecutive"
    /\ pc' = [pc EXCEPT ![t] = "returned"]
    /\ UNCHANGED <<clock, upstream, db, market_reports, local, fin, fout>>

\* the caller has the result; the thread ends
thread_end(t) ==
    /\ pc[t] = "returned"
    /\ pc' = [pc EXCEPT ![t] = "done"]
    /\ local' = [local EXCEPT ![t] = NoLocals]
    /\ UNCHANGED <<clock, upstream, db, market_reports, fin, fout>>

Next ==
    \/ Tick
    \/ delayed_fetch_and_push
    \/ task_wake
    \/ background_fetch
    \/ \E t \in Threads : fetch_market_data(t)
    \/ \E t \in Threads : save_market_report_begin(t)
    \/ \E t \in Threads : update_one_match(t)
    \/ \E t \in Threads : update_one_write(t)
    \/ \E t \in Threads : update_consecutive_days(t)
    \/ \E t \in Threads : thread_end(t)

Spec == Init /\ [][Next]_vars

\* the steps of thread t after its fetches
ThreadStep(t) ==
    \/ save_market_report_begin(t)
    \/ update_one_match(t)
    \/ update_one_write(t)
    \/ update_consecutive_days(t)
    \/ thread_end(t)

\* fetch_market_data(t) can be taken: the thread is at its fetches and the
\* request it waits for returns
fetch_enabled(t) ==
    /\ pc[t] = "fetch"
    /\ requests_get_returns(Served(upstream)[get_tw_stock_date(Now)].taiex)

InitLive ==
    /\ upstream \in {<<"good", "good">>, <<"silent", "silent">>}
    /\ Init

\* SpecLive: in a world that answers and in one that does not, a started
\* thread is scheduled again and again, and the sleep of the scheduled task
\* ends.  The last conjunct is weak fairness of fetch_market_data(t), a step
\* that ends its own enabling: it is not enabled for ever.
SpecLive ==
    /\ InitLive
    /\ [][Next]_vars
    /\ WF_vars(task_wake)
    /\ \A t \in Threads : WF_vars(ThreadStep(t))
    /\ \A t \in Threads : []<>(~fetch_enabled(t))

----------------------------------------------------------------------------
(* SpecDb: the pipeline runs of Spec together with a caller of            *)
(* mark_report_as_pushed, the function of mongodb.py that records a push.  *)

\* mongodb.py 332-358: $set of is_pushed, push_time and updated_at on the
\* document with the given _id
mark_report_as_pushed(reports, report_id, now) ==
    {IF r._id = report_id
     THEN [r EXCEPT !.is_pushed = TRUE, !.push_time = now, !.updated_at = now]
     ELSE r : r \in reports}

\* market_data.py 219-221: the call made once a report has gone out
report_pushed ==
    /\ db.connected
    /\ \E r \in market_reports :
          /\ ~r.is_pushed
          /\ market_reports' = mark_report_as_pushed(market_reports, r._id, Now)
    /\ UNCHANGED <<clock, upstream, db, pc, local, fin, fout>>

NextDb == Next \/ report_pushed

SpecDb == Init /\ [][NextDb]_vars

----------------------------------------------------------------------------
(* SpecBot: the LINE bot of app.py.  handle_message answers the text      *)
(* events, the admin's commands start the background threads, and the     *)
(* scheduled task pushes after its fetch.  The runs are those of Spec, on *)
(* one day.  fin holds db_connected and the users and groups collections, *)
(* local["handle_message"] the locals of the last event handled, fout the *)
(* push_message calls made.                                               *)

\* app.py 38-39: the ids of the environment variable ADMIN_USER_IDS
ADMIN_USER_IDS == {"U1"}

\* the text events: a one-to-one chat with the admin or with another user, a
\* group and a room.  The texts are the id command, the empty text, the two
\* manual-update commands, the push command, the report command and a text
\* that is no command.
Events ==
    {[source_type |-> "user", source_id |-> u, text |-> x] :
        u \in {"U1", "U2"},
        x \in {"id", "", "#gengxinchouma", "#shoudonggengxin", "#tuisong",
               "choumakuaibao", "nihao"}}
    \cup
    {[source_type |-> c[1], source_id |-> c[2], text |-> x] :
        c \in {<<"group", "C1">>, <<"room", "R1">>},
        x \in {"id", "", "#gengxinchouma", "#shoudonggengxin", "#tuisong",
               "choumakuaibao", "nihao"}}

\* a message text of the bot that is not a report
Text(k) == [kind |-> k]

\* app.py 207 and 275: the admin test of the two admin commands
is_admin_any_user(source_type, source_id) == source_type = "user"

is_admin(source_type, source_id) ==
    source_type = "user" /\ source_id \in ADMIN_USER_IDS

\* mongodb.py 209-232: the report with the latest created_at, None when the
\* collection is empty
get_latest_market_report(reports) ==
    LET at(r) == 3 * r.created_at.day
                 + (CHOOSE i \in 1..Len(Slots) : Slots[i] = r.created_at.slot)
    IN  IF reports = {} THEN None
        ELSE CHOOSE r \in reports : \A o \in reports : at(o) <= at(r)

\* utils.py 15-62: with a report_id the branch of lines 29-32 is a bare
\* pass, so  report  stays None and so does the result; with no argument the
\* text is made from the latest report
generate_market_report(report_id, reports) ==
    LET report == IF report_id # None THEN None
                  ELSE get_latest_market_report(reports)
    IN  IF report = None THEN None
        ELSE [kind |-> "full_report", date |-> report.date]

\* market_data.py 168-224 with get_groups_for_push, mongodb.py 396-417: the
\* push_message calls made and the collection afterwards
push_market_report(report_id, groups, reports, connected, now) ==
    LET targets == {g \in DOMAIN groups :
                       /\ connected
                       /\ groups[g].status = "active"
                       /\ groups[g].auto_push}
        report_text == generate_market_report(report_id, reports)
    IN  IF targets = {} \/ report_text = None
        THEN [pushes |-> {}, reports |-> reports]
        ELSE [pushes |-> {[to |-> g, text |-> report_text] : g \in targets},
              reports |-> mark_report_as_pushed(reports, report_id, now)]

\* app.py 329-351: the replies of the report command
report_command_replies_no_else(report_text) ==
    (IF report_text # None THEN <<report_text>> ELSE <<>>) \o <<Text("no_report")>>

report_command_replies(report_text) ==
    IF report_text # None THEN <<report_text>> ELSE <<Text("no_report")>>

InitBot ==
    /\ clock = [day |-> 1, slot |-> 3]
    /\ upstream = <<"good", "good">>
    /\ fin \in {[db_connected |-> c,
                 users |-> [u \in {"U1", "U2"} |->
                               IF u = "U1" THEN "active" ELSE s],
                 groups |-> [g \in {"C1", "R1"} |->
                               IF g = "C1" THEN r
                               ELSE [status |-> "none", auto_push |-> FALSE]]] :
                   c \in BOOLEAN,
                   s \in {"none", "active", "blocked"},
                   r \in {[status |-> "none", auto_push |-> FALSE],
                          [status |-> "active", auto_push |-> FALSE],
                          [status |-> "active", auto_push |-> TRUE]}}
    /\ db = [connected |-> fin.db_connected, unique_date |-> fin.db_connected]
    /\ market_reports = {}
    /\ pc = [t \in Threads \cup {"background_push"} |-> "idle"]
    /\ local = [t \in Threads \cup {"background_push", "handle_message"} |->
                   IF t = "handle_message"
                   THEN [event |-> None, authorized |-> None, replies |-> <<>>]
                   ELSE NoLocals]
    /\ fout = {}

\* app.py 101-506: one text event, from the registration of its source to
\* the reply.  get_profile may raise (lines 113 and 173, profile_ok), the
\* database functions of mongodb.py catch their errors and then write
\* nothing or answer False or None (db_ok), and reply_message may raise,
\* which ends the handler (reply_ok).  The threads are started after the
\* reply.  An outcome the handler does not depend on is taken as success.
handle_message(e) ==
    \E profile_ok, db_ok, reply_ok \in BOOLEAN :
    /\ e.source_type # "user" => profile_ok
    /\ ~(/\ e.text \in {"#gengxinchouma", "#shoudonggengxin", "#tuisong"}
         /\ is_admin(e.source_type, e.source_id)) => reply_ok
    /\ LET is_user == e.source_type = "user"
           \* mongodb.py 419-497: save_user_info and save_group_info upsert;
           \* status is set on insert only
           save_info(f) ==
               IF ~db_ok THEN f
               ELSE IF is_user
               THEN [f EXCEPT !.users[e.source_id] =
                        IF @ = "none" THEN "active" ELSE @]
               ELSE [f EXCEPT !.groups[e.source_id] =
                        IF @.status = "none"
                        THEN [status |-> "active", auto_push |-> FALSE] ELSE @]
           \* mongodb.py 499-551: is_user_authorized and is_group_authorized
           is_authorized(f) ==
               /\ db_ok
               /\ IF is_user THEN f.users[e.source_id] = "active"
                  ELSE f.groups[e.source_id].status = "active"
           \* lines 108-135
           seen == IF fin.db_connected /\ (is_user => profile_ok)
                   THEN save_info(fin) ELSE fin
           id_command == e.text = "id"
           \* lines 160-183
           checked == fin.db_connected /\ ~id_command
           grant == checked /\ ~is_authorized(seen) /\ (is_user => profile_ok)
           authorized ==
               IF id_command THEN None
               ELSE IF ~fin.db_connected THEN TRUE
               ELSE IF is_authorized(seen) THEN TRUE
               ELSE (is_user => profile_ok)
           granted == IF grant THEN save_info(seen) ELSE seen
           admin == is_admin(e.source_type, e.source_id)
           fetch_command == e.text \in {"#gengxinchouma", "#shoudonggengxin"}
           push_command == e.text = "#tuisong"
           report_text ==
               generate_market_report(None, IF db_ok /\ db.connected
                                            THEN market_reports ELSE {})
           replies ==
               IF id_command THEN <<Text("id")>>
               ELSE IF e.text = "" THEN <<Text("welcome")>>
               ELSE IF fetch_command
               THEN IF admin THEN <<Text("fetch_started")>> ELSE <<Text("admin_only")>>
               ELSE IF push_command
               THEN IF admin THEN <<Text("push_started")>> ELSE <<Text("admin_only")>>
               ELSE IF e.text = "choumakuaibao"
               THEN report_command_replies(report_text)
               ELSE <<Text("help")>>
           starts_fetch == fetch_command /\ admin /\ reply_ok
           starts_push == push_command /\ admin /\ reply_ok
       IN  /\ starts_fetch => pc["background_fetch"] = "idle"
           /\ starts_push => pc["background_push"] = "idle"
           /\ fin' = granted
           /\ local' = [local EXCEPT !["handle_message"] =
                           [event |-> e, authorized |-> authorized,
                            replies |-> replies]]
           /\ pc' = IF starts_fetch THEN [pc EXCEPT !["background_fetch"] = "fetch"]
                    ELSE IF starts_push
                    THEN [pc EXCEPT !["background_push"] = "push"]
                    ELSE pc
           /\ UNCHANGED <<clock, upstream, db, market_reports, fout>>

\* market_data.py 274-278: the scheduled task pushes the report it saved
task_push ==
    /\ pc["task"] = "returned"
    /\ LET pushed == push_market_report(local["task"].report_id, fin.groups,
                                        market_reports, db.connected, Now)
       IN  IF local["task"].report_id # None
           THEN /\ fout' = fout \cup pushed.pushes
                /\ market_reports' = pushed.reports
           ELSE UNCHANGED <<fout, market_reports>>
    /\ pc' = [pc EXCEPT !["task"] = "done"]
    /\ UNCHANGED <<clock, upstream, db, local, fin>>

\* app.py 216-258: after its fetch the admin's thread sends the report, or
\* the failure, to the admin
background_fetch_report ==
    /\ pc["background_fetch"] = "returned"
    /\ LET admin_id == CHOOSE a \in ADMIN_USER_IDS : TRUE
           report_text ==
               generate_market_report(None, IF db.connected
                                            THEN market_reports ELSE {})
       IN  fout' = fout \cup
               IF local["background_fetch"].report_id # None
               THEN {[to |-> admin_id,
                      text |-> IF report_text # None THEN report_text
                               ELSE Text("no_report")],
                     [to |-> admin_id, text |-> Text("ask_push")]}
               ELSE {[to |-> admin_id, text |-> Text("fetch_failed")]}
    /\ pc' = [pc EXCEPT !["background_fetch"] = "done"]
    /\ UNCHANGED <<clock, upstream, db, market_reports, local, fin>>

\* app.py 284-315: the thread of the push command
background_push ==
    /\ pc["background_push"] = "push"
    /\ LET admin_id == CHOOSE a \in ADMIN_USER_IDS : TRUE
           latest_report ==
               get_latest_market_report(IF db.connected
                                        THEN market_reports ELSE {})
           pushed == push_market_report(latest_report._id, fin.groups,
                                        market_reports, db.connected, Now)
       IN  IF latest_report # None
           THEN /\ fout' = fout \cup pushed.pushes
                              \cup {[to |-> admin_id, text |-> Text("push_done")]}
                /\ market_reports' = pushed.reports
           ELSE /\ fout' = fout \cup {[to |-> admin_id, text |-> Text("no_latest")]}
                /\ UNCHANGED market_reports
    /\ pc' = [pc EXCEPT !["background_push"] = "done"]
    /\ UNCHANGED <<clock, upstream, db, local, fin>>

NextBot ==
    \/ \E e \in Events : handle_message(e)
    \/ fetch_market_data("background_fetch")
    \/ save_market_report_begin("background_fetch")
    \/ update_one_match("background_fetch")
    \/ update_one_write("background_fetch")
    \/ update_consecutive_days("background_fetch")
    \/ background_fetch_report
    \/ background_push

SpecBot == InitBot /\ [][NextBot]_vars

\* SpecPush: the scheduled task alone, from delayed_fetch_and_push to its
\* push, with the collections of InitBot
NextPush ==
    \/ delayed_fetch_and_push
    \/ task_wake
    \/ fetch_market_data("task")
    \/ save_market_report_begin("task")
    \/ update_one_match("task")
    \/ update_one_write("task")
    \/ update_consecutive_days("task")
    \/ task_push

SpecPush == InitBot /\ [][NextPush]_vars

----------------------------------------------------------------------------
(* SpecCrawl: the two source chains applied to every combination of       *)
(* documents for one trading date and the calendar day before it.         *)

CrawlDate == 1

PipelineIdle ==
    /\ clock = None
    /\ upstream = None
    /\ db = None
    /\ market_reports = {}
    /\ pc = None
    /\ local = None

InitCrawl ==
    /\ PipelineIdle
    /\ fout = Pending
    /\ \/ \E op \in OptPrimaryDocs, oc \in OptCsvDocs, oj \in OptJsonDocs,
             yp \in OptPrimaryDocs :
            fin = [group |-> "option",
                   up |-> (CrawlDate :> ChainDocs(op, oc, oj, Fail, Fail, Fail)
                           @@ (CrawlDate - 1) :>
                               ChainDocs(yp, Fail, Fail, Fail, Fail, Fail))]
       \/ \E tp \in TopPrimaryDocs, tc \in TopCsvDocs, tj \in TopJsonDocs,
             yp \in TopPrimaryDocs :
            fin = [group |-> "top",
                   up |-> (CrawlDate :> ChainDocs(Fail, Fail, Fail, tp, tc, tj)
                           @@ (CrawlDate - 1) :>
                               ChainDocs(Fail, Fail, Fail, yp, Fail, Fail))]
       \/ \E doc \in OptionsExcelDocs, backup_doc \in OptionsBackupDocs :
            fin = [group |-> "options_excel",
                   doc |-> doc, backup_doc |-> backup_doc]
       \/ \E doc \in InstFuturesDocs :
            fin = [group |-> "institutional_futures", doc |-> doc]
       \/ \E doc \in TaiexDocs :
            fin = [group |-> "taiex", doc |-> doc]
       \/ \E doc \in InstitutionalDocs, alt \in InstitutionalAltDocs :
            fin = [group |-> "institutional", doc |-> doc, alt |-> alt]

CrawlOption ==
    /\ fout = Pending
    /\ fin.group = "option"
    /\ fout' = get_option_positions_data(CrawlDate, fin.up)
    /\ UNCHANGED <<pipeline_vars, fin>>

CrawlTop ==
    /\ fout = Pending
    /\ fin.group = "top"
    /\ fout' = get_top_traders_data(CrawlDate, fin.up)
    /\ UNCHANGED <<pipeline_vars, fin>>

CrawlOptionsExcel ==
    /\ fout = Pending
    /\ fin.group = "options_excel"
    /\ fout' = get_options_positions_data(CrawlDate, fin.doc, fin.backup_doc)
    /\ UNCHANGED <<pipeline_vars, fin>>

CrawlInstitutionalFutures ==
    /\ fout = Pending
    /\ fin.group = "institutional_futures"
    /\ fout' = get_institutional_futures_by_date(CrawlDate, fin.doc)
    /\ UNCHANGED <<pipeline_vars, fin>>

CrawlTaiex ==
    /\ fout = Pending
    /\ fin.group = "taiex"
    /\ fout' = get_taiex_data(CrawlDate, fin.doc)
    /\ UNCHANGED <<pipeline_vars, fin>>

CrawlInstitutional ==
    /\ fout = Pending
    /\ fin.group = "institutional"
    /\ fout' = get_institutional_investors_data(CrawlDate, fin.doc, fin.alt)
    /\ UNCHANGED <<pipeline_vars, fin>>

NextCrawl ==
    \/ CrawlOption
    \/ CrawlTop
    \/ CrawlOptionsExcel
    \/ CrawlInstitutionalFutures
    \/ CrawlTaiex
    \/ CrawlInstitutional

SpecCrawl == InitCrawl /\ [][NextCrawl]_vars

----------------------------------------------------------------------------
(* Claims about the source chains (SpecCrawl) *)

Applied == fout # Pending

ChainApplied == Applied /\ fin.group \in {"option", "top"}

\* rank of a request: primary 1, CSV 2, JSON 3, previous day's primary 4
Rank(c) ==
    IF c.date = CrawlDate - 1 THEN 4
    ELSE IF c.src = "primary" THEN 1
    ELSE IF c.src = "csv" THEN 2
    ELSE 3

Ranks == [i \in 1..Len(fout.contacted) |-> Rank(fout.contacted[i])]

Contacted(r) == \E i \in 1..Len(fout.contacted) : Ranks[i] = r

\* what each same-day source returned, taken alone, for the input
PrimaryResult ==
    IF fin.group = "option"
    THEN get_option_positions_data_by_date(CrawlDate, fin.up[CrawlDate].opt_primary)
    ELSE get_top_traders_data_by_date(CrawlDate, fin.up[CrawlDate].top_primary)

CsvDoc ==
    IF fin.group = "option" THEN fin.up[CrawlDate].opt_csv
    ELSE fin.up[CrawlDate].top_csv

\* the CSV download's own rows, before any JSON result replaces them
CsvResult ==
    IF fin.group = "option"
    THEN get_option_positions_alternative(CrawlDate, CsvDoc, Fail).result
    ELSE get_top_traders_alternative(CrawlDate, CsvDoc, Fail).result

JsonResult ==
    IF fin.group = "option"
    THEN get_option_positions_json_api(CrawlDate, fin.up[CrawlDate].opt_json)
    ELSE get_top_traders_json_api(CrawlDate, fin.up[CrawlDate].top_json)

Valid(data) ==
    IF fin.group = "option" THEN is_valid_option_data(data)
    ELSE is_valid_top_traders_data(data)

SourceValid(r) ==
    IF r = 1 THEN Valid(PrimaryResult)
    ELSE IF r = 2 THEN Valid(CsvResult)
    ELSE Valid(JsonResult)

\* the previous day's query counts as a source of the group's data only when
\* its result is what the function returns (it is also the change baseline)
AttemptedAsSource(r) ==
    /\ Contacted(r)
    /\ r = 4 => fout.data.date = CrawlDate - 1

\* C7: requests go out in rank order, and a source of rank r is
\* attempted only after every source of higher rank was contacted and returned
\* an invalid result (so none is attempted once a higher-ranked one was valid).
C7_StrictFallback ==
    ChainApplied =>
        /\ \A i \in 1..(Len(Ranks) - 1) : Ranks[i] < Ranks[i + 1]
        /\ \A r \in 1..4 :
              AttemptedAsSource(r) =>
                  \A h \in 1..(r - 1) : Contacted(h) /\ ~SourceValid(h)

\* what the two pages of futures.py give on their own
ExcelYields == options_excel_rows(fin.doc)

BackupYields ==
    IF fin.backup_doc.kind = "fail" THEN zero_options_positions
    ELSE options_backup_rows(fin.backup_doc)

YieldsNothing(r) == r.foreign_call_net = 0 /\ r.foreign_put_net = 0

\* C9: when neither the Excel page nor the backup page yields a foreign call
\* or put net position, the returned nets are the default 0.
C9_DefaultWhenAllFail ==
    (Applied /\ fin.group = "options_excel" /\ fin.doc.kind = "ok"
       /\ YieldsNothing(ExcelYields) /\ YieldsNothing(BackupYields))
    => YieldsNothing(fout)

\* the previous day's primary query, as the option chain saw it
PreviousObtained == fin.up[CrawlDate - 1].opt_primary.kind = "ok"

\* C10: the change fields are today's value minus the previous day's value,
\* and 0 whenever the previous day's values could not be obtained.
C10_ChangeIsDelta ==
    (ChainApplied /\ fin.group = "option" /\ fout.data.date = CrawlDate)
    => IF PreviousObtained
       THEN /\ fout.data.foreign_call_net_change =
                  fout.data.foreign_call_net
                  - fin.up[CrawlDate - 1].opt_primary.call
            /\ fout.data.foreign_put_net_change =
                  fout.data.foreign_put_net
                  - fin.up[CrawlDate - 1].opt_primary.put
       ELSE /\ fout.data.foreign_call_net_change = 0
            /\ fout.data.foreign_put_net_change = 0

\* a futures-contracts table was scanned
FuturesScanned ==
    Applied /\ fin.group = "institutional_futures" /\ fin.doc.kind = "ok"

\* the column the claim says is read
ClaimedColumn ==
    LET t == fin.doc.choice
    IN  IF t.h2 >= 0 THEN t.h2
        ELSE IF t.h1 >= 0 THEN t.h1
        ELSE IF t.width > 8 THEN 8 ELSE -1

\* the value the claimed column holds in the foreign row of the first section
ClaimedTxNet ==
    IF ClaimedColumn = -1 THEN 0
    ELSE safe_int(RemoveCommas(
             NumberCell(fin.doc.choice.cells, 1, ClaimedColumn)))

\* (tables whose sections are the two contracts, named in Chinese)
C8_ColumnUsed ==
    (FuturesScanned /\ fin.doc.choice.names = "cht" /\ ~fin.doc.choice.middle)
    => fout.foreign_tx_net = ClaimedTxNet

\* C8: without a matching header cell the positional column (first of 8, 9,
\* 10 that the table has) is read, with one the header's column is read, and
\* the result records which strategy gave the value.
C8_FallbackOrdering ==
    /\ C8_ColumnUsed
    /\ FuturesScanned =>
          /\ "strategy_used" \in DOMAIN fout
          /\ fout.strategy_used = net_position_strategy(fin.doc.table)

\* the net position the foreign row of the section whose values start with
\* base shows in the column the scan reads, 0 when it shows none
SectionForeignNet(kind, base) ==
    LET idx == net_position_idx_of(fin.doc.table)
    IN  IF idx = -1 THEN 0
        ELSE safe_int(RemoveCommas(strip(NumberCell(kind, base, idx))))

\* C28: foreign_tx_net comes only from the foreign row of the first
\* contract's section and foreign_mtx_net only from the foreign row of the
\* small contract's section; the foreign row of any other section changes
\* neither.
C28_ContractScoping ==
    FuturesScanned
    => /\ fout.foreign_tx_net = SectionForeignNet(fin.doc.choice.cells, 1)
       /\ fout.foreign_mtx_net = SectionForeignNet("plain", 2)

\* the part of C28 that holds: tables with Chinese contract names in which
\* no other contract's section follows the first
C28_TwoSectionsOnly ==
    (FuturesScanned /\ fin.doc.choice.names = "cht" /\ ~fin.doc.choice.middle)
    => /\ fout.foreign_tx_net = SectionForeignNet(fin.doc.choice.cells, 1)
       /\ fout.foreign_mtx_net = SectionForeignNet("plain", 2)

\* C4: whatever the upstream serves, an extraction function returns a fully
\* populated result, never a null one.
C4_Totality ==
    /\ (Applied /\ fin.group = "taiex") =>
          /\ fout # None
          /\ DOMAIN fout = DOMAIN zero_taiex_data(CrawlDate)
    /\ (Applied /\ fin.group = "institutional") =>
          /\ fout # None
          /\ DOMAIN fout = DOMAIN default_institutional_data(CrawlDate)
    /\ (Applied /\ fin.group = "institutional_futures") =>
          /\ fout # None
          /\ DOMAIN fout = DOMAIN default_institutional_futures_data
    /\ ChainApplied =>
          /\ fout.data # None
          /\ DOMAIN fout.data =
                IF fin.group = "option"
                THEN DOMAIN default_option_positions_data(CrawlDate)
                ELSE DOMAIN default_top_traders_data(CrawlDate)

\* a component that was not read, or reads as nothing (below 0.01)
Missing(x) == abs(x) < 1

\* the three components of the institutional rows as the page shows them
PageComponents ==
    <<fin.doc.foreign, fin.doc.investment_trust,
      fin.doc.dealer_self + fin.doc.dealer_hedge>>

\* the page reports a total that differs from the sum of its components by
\* more than the tolerance (1.0), and exactly one of the three is missing
OneComponentMissing ==
    /\ Applied /\ fin.group = "institutional" /\ fin.doc.kind = "ok"
    /\ ~Missing(fin.doc.total)
    /\ abs(fin.doc.total - (PageComponents[1] + PageComponents[2]
                            + PageComponents[3])) > 100
    /\ Cardinality({k \in 1..3 : Missing(PageComponents[k])}) = 1

\* C11: when the total differs from the sum of the components by more than
\* the tolerance and exactly one component is missing, that component is
\* recomputed, so the returned components sum to the reported total.
C11_ConsistencyRepair ==
    OneComponentMissing
    => /\ fout.total = fin.doc.total
       /\ fout.foreign + fout.investment_trust + fout.dealer = fout.total

\* the part of C11 the code carries out: a missing foreign component, with
\* no value from the alternate source, is recomputed from the total
C11_ForeignRepaired ==
    (OneComponentMissing /\ Missing(fin.doc.foreign)
       /\ fin.alt.kind = "fail")
    => fout.foreign = fout.total - fout.investment_trust - fout.dealer

----------------------------------------------------------------------------
(* src/utils.py and src/crawler/utils.py: normalize_pc_ratio.  The value   *)
(* is given in hundredths (0.8 is 80) and the result in millionths (0.75  *)
(* is 750000), so that every division of the code is exact.              *)

\* src/utils.py 375-395, with the branch on 50 returning value / 10
normalize_pc_ratio_tenth(value) ==
    IF value = 0 THEN 0
    ELSE IF value > 100000 THEN value
    ELSE IF value > 10000 THEN value * 100
    ELSE IF value > 1000
         THEN IF value > 5000 THEN value * 1000
              ELSE IF value > 2000 THEN value * 1000
              ELSE value * 10000
    ELSE value * 10000

\* src/utils.py 375-395
normalize_pc_ratio(value) ==
    IF value = 0 THEN 0
    ELSE IF value > 100000 THEN value
    ELSE IF value > 10000 THEN value * 100
    ELSE IF value > 1000
         THEN IF value > 5000 THEN value * 100
              ELSE IF value > 2000 THEN value * 1000
              ELSE value * 10000
    ELSE value * 10000

\* src/crawler/utils.py 204-232
crawler_normalize_pc_ratio(value) ==
    IF value = 0 THEN 0
    ELSE IF value > 100000 THEN value
    ELSE IF value > 10000 THEN value * 100
    ELSE IF value > 1000
         THEN IF value > 5000 THEN value * 100
              ELSE IF value > 2000 THEN value * 1000
              ELSE value * 10000
    ELSE value * 10000

\* src/utils.py 135-142: generate_full_report normalizes the stored ratio
\* before it is formatted
report_put_call_ratio(put_call_ratio) == normalize_pc_ratio(put_call_ratio)

\* raw ratios, in hundredths: around every threshold of the code
RatioValues ==
    {-50, 0, 1, 80, 999, 1000, 1001, 1500, 2000, 2001, 5000, 5001, 7500,
     10000, 10001, 50000, 100000, 100001, 750000}

----------------------------------------------------------------------------
(* src/crawler/utils.py: safe_float.  A float is given in hundredths; the  *)
(* cells carry at most two decimals.                                      *)

KeepFloatChar(c) == IsDigit(c) \/ c = "." \/ c = "-"

\* c occurs in text (Python's  c in text  for one character)
Has(text, c) == \E i \in 1..Len(text) : text[i] = c

\* str.replace(c, '') for one character
Without(text, c) == LET Keep(x) == x # c IN SelectSeq(text, Keep)

\* the text up to the first c, the whole text when there is none
Before(text, c) ==
    IF Has(text, c)
    THEN SubSeq(text, 1, (CHOOSE i \in 1..Len(text) :
                            text[i] = c /\ \A j \in 1..(i - 1) : text[j] # c) - 1)
    ELSE text

\* the text after the first c, empty when there is none
After(text, c) ==
    IF Has(text, c)
    THEN SubSeq(text, Len(Before(text, c)) + 2, Len(text))
    ELSE <<>>

\* float() accepts digits with at most one point and at least one digit
IsUnsignedFloat(body) ==
    /\ ~Has(body, "-")
    /\ ~Has(After(body, "."), ".")
    /\ \E i \in 1..Len(body) : IsDigit(body[i])

UnsignedFloat(body) ==
    LET frac == After(body, ".")
    IN  100 * DigitsToNat(Before(body, "."))
        + (IF Len(frac) = 0 THEN 0
           ELSE IF Len(frac) = 1 THEN 10 * DigitVal(frac[1])
           ELSE DigitsToNat(SubSeq(frac, 1, 2)))

\* utils.py 129-145: keep digits, '.' and '-'; an empty rest, '.', '-' and
\* '-.' give the default; float(rest) the value, a ValueError the default
safe_float(value) ==
    LET rest == SelectSeq(value, KeepFloatChar)
    IN  IF rest \in {<<>>, <<".">>, <<"-">>, <<"-", ".">>} THEN 0
        ELSE IF IsUnsignedFloat(rest) THEN UnsignedFloat(rest)
        ELSE IF rest[1] = "-" /\ IsUnsignedFloat(Tail(rest))
             THEN 0 - UnsignedFloat(Tail(rest))
        ELSE 0

----------------------------------------------------------------------------
(* The price-change cell of the TX row.  The rise glyph is written "UP",   *)
(* the fall glyph "DOWN", each one character of the text.                 *)

\* src/crawler/futures.py 141-149 (get_tx_futures_data)
futures_change_value(cell_text) ==
    LET change_text == RemoveCommas(strip(cell_text))
    IN  IF change_text = <<>> \/ change_text = <<"-", "-">> THEN 0
        ELSE IF Has(change_text, "UP") \/ Has(change_text, "+")
             THEN safe_float(Without(Without(change_text, "UP"), "+"))
        ELSE IF Has(change_text, "DOWN") \/ Has(change_text, "-")
             THEN 0 - safe_float(Without(Without(change_text, "DOWN"), "-"))
        ELSE 0

\* src/crawler/pc_ratio.py 120-126 (get_tx_futures_data)
pc_ratio_change_value(cell_text) ==
    LET change_text == strip(cell_text)
    IN  IF Has(change_text, "UP")
        THEN safe_float(Without(change_text, "UP"))
        ELSE IF Has(change_text, "DOWN")
             THEN 0 - safe_float(Without(change_text, "DOWN"))
        ELSE 0

\* the direction markers a cell may start with, none included
Markers == {<<>>, <<"UP">>, <<"DOWN">>, <<"+">>, <<"-">>}

\* magnitudes as written and their values in hundredths
Magnitudes ==
    {[text |-> <<"1", "2", "3", ".", "4", "5">>, value |-> 12345],
     [text |-> <<"9", ",", "3", "4", "3">>, value |-> 934300],
     [text |-> <<"5">>, value |-> 500],
     [text |-> <<"0", ".", "5">>, value |-> 50]}

----------------------------------------------------------------------------
(* src/crawler/futures.py: the position cells of the top traders table,   *)
(* an outer number and a number in parentheses.  A line break is written  *)
(* "NL", one character of the text.                                       *)

\* re.search(r'\((\d+[\d,]*)\)', text): the positions of the first '(' and
\* of the ')' that closes a run of digits and commas starting with a digit
paren_spans(text) ==
    {sp \in (1..Len(text)) \X (1..Len(text)) :
        /\ text[sp[1]] = "(" /\ text[sp[2]] = ")"
        /\ sp[2] > sp[1] + 1
        /\ IsDigit(text[sp[1] + 1])
        /\ \A k \in (sp[1] + 1)..(sp[2] - 1) :
              IsDigit(text[k]) \/ text[k] = ","}

\* group(1) of the leftmost match, None when nothing matches
paren_group(text) ==
    IF paren_spans(text) = {} THEN None
    ELSE LET sp == CHOOSE a \in paren_spans(text) :
                       \A b \in paren_spans(text) : a[1] <= b[1]
         IN  [group |-> SubSeq(text, sp[1] + 1, sp[2] - 1)]

\* the number in parentheses, as both functions read it
specific_of(text) ==
    IF paren_group(text) = None THEN 0
    ELSE safe_int(RemoveCommas(paren_group(text).group))

\* futures.py 590-606 (get_top_traders_data): the first line of the cell
top_traders_cell(cell_text) ==
    LET buy_text == strip(cell_text)
        traders_buy_text == RemoveCommas(Before(buy_text, "NL"))
    IN  [traders |-> safe_int(traders_buy_text),
         specific |-> specific_of(buy_text)]

\* futures.py 746-754 (get_top_traders_backup): the whole cell
top_traders_backup_cell(cell_text) ==
    LET buy_text == RemoveCommas(strip(cell_text))
    IN  [traders |-> safe_int(buy_text),
         specific |-> specific_of(cell_text)]

\* numbers as written and their values
OuterNumbers == {[text |-> <<"1", ",", "2", "3", "4">>, value |-> 1234],
                 [text |-> <<"4", "2">>, value |-> 42]}

InnerNumbers == {[text |-> <<"5", "6", "7">>, value |-> 567],
                 [text |-> <<"1", ",", "0", "0", "5">>, value |-> 1005]}

\* what stands between the outer number and the parenthesis
Separators == {<<>>, <<"NL">>}

----------------------------------------------------------------------------
(* The futures bias of get_futures_data, in hundredths.  tx is what the   *)
(* TX row gives: tx.kind is "norow" when no near-month row is found.      *)

\* futures.py 61-175: the close of the row, 0.0 from default_tx_data
futures_tx_close(tx) == IF tx.kind = "ok" THEN tx.close ELSE 0

\* futures.py 45-49 (get_futures_data)
futures_bias(tx, taiex_close) ==
    LET close == futures_tx_close(tx)
    IN  IF close > 0 /\ taiex_close > 0 THEN close - taiex_close ELSE 0

\* pc_ratio.py 106-145 (get_tx_futures_data): taiex_close is estimated
\* from the futures close and the preset 4.77
pc_ratio_tx_futures_data(tx) ==
    IF tx.kind = "ok"
    THEN [close |-> tx.close, taiex_close |-> tx.close - 477]
    ELSE [close |-> 0, taiex_close |-> 0]

\* pc_ratio.py 22-33 (get_futures_data)
pc_ratio_bias(tx) ==
    LET tx_data == pc_ratio_tx_futures_data(tx)
    IN  tx_data.close - tx_data.taiex_close

TxRows == {[kind |-> "norow"], [kind |-> "ok", close |-> 0],
           [kind |-> "ok", close |-> 2150000],
           [kind |-> "ok", close |-> 2130000]}

\* the index close get_taiex_data gave, 0 when it gave none
TaiexCloses == {0, 2140000, 2150000}

\* the Taipei times get_tw_stock_date may be called at: a week from Friday
CalendarTimes ==
    {[day |-> d, slot |-> sl] : d \in 1..7,
                                sl \in {"preopen", "open", "closed"}}

----------------------------------------------------------------------------
(* SpecParse: the pure functions of the parsers and of the report, each   *)
(* applied once to an input of its domain.                                *)

InitParse ==
    /\ PipelineIdle
    /\ fout = Pending
    /\ \/ \E value \in RatioValues :
            fin = [group |-> "normalize", value |-> value]
       \/ \E marker \in Markers, magnitude \in Magnitudes :
            fin = [group |-> "change", marker |-> marker,
                   magnitude |-> magnitude,
                   text |-> marker \o magnitude.text]
       \/ \E outer \in OuterNumbers, inner \in InnerNumbers,
             sep \in Separators :
            fin = [group |-> "cell", outer |-> outer, inner |-> inner,
                   sep |-> sep,
                   text |-> outer.text \o sep \o <<"(">> \o inner.text
                            \o <<")">>]
       \/ \E tx \in TxRows, taiex_close \in TaiexCloses :
            fin = [group |-> "bias", tx |-> tx, taiex_close |-> taiex_close]
       \/ \E now \in CalendarTimes :
            fin = [group |-> "date", now |-> now]

ApplyNormalize ==
    /\ fout = Pending
    /\ fin.group = "normalize"
    /\ fout' = [utils |-> normalize_pc_ratio(fin.value),
                crawler |-> crawler_normalize_pc_ratio(fin.value),
                report |-> report_put_call_ratio(fin.value)]
    /\ UNCHANGED <<pipeline_vars, fin>>

ApplyChange ==
    /\ fout = Pending
    /\ fin.group = "change"
    /\ fout' = [futures |-> futures_change_value(fin.text),
                pc_ratio |-> pc_ratio_change_value(fin.text)]
    /\ UNCHANGED <<pipeline_vars, fin>>

ApplyCell ==
    /\ fout = Pending
    /\ fin.group = "cell"
    /\ fout' = [primary |-> top_traders_cell(fin.text),
                backup |-> top_traders_backup_cell(fin.text)]
    /\ UNCHANGED <<pipeline_vars, fin>>

ApplyBias ==
    /\ fout = Pending
    /\ fin.group = "bias"
    /\ fout' = [futures |-> futures_bias(fin.tx, fin.taiex_close),
                pc_ratio |-> pc_ratio_bias(fin.tx)]
    /\ UNCHANGED <<pipeline_vars, fin>>

ApplyDate ==
    /\ fout = Pending
    /\ fin.group = "date"
    /\ fout' = [date |-> get_tw_stock_date(fin.now)]
    /\ UNCHANGED <<pipeline_vars, fin>>

NextParse ==
    \/ ApplyNormalize
    \/ ApplyChange
    \/ ApplyCell
    \/ ApplyBias
    \/ ApplyDate

SpecParse == InitParse /\ [][NextParse]_vars

----------------------------------------------------------------------------
(* Claims about the pure functions (SpecParse) *)

Normalized == Applied /\ fin.group = "normalize"

\* the result, in millionths, the rule as stated gives for v hundredths
StatedRatio(v) ==
    IF v > 100000 THEN v
    ELSE IF v > 10000 THEN v * 100
    ELSE IF v > 5000 THEN v * 100
    ELSE IF v > 2000 THEN v * 1000
    ELSE v * 10000

\* C12: normalize_pc_ratio returns v/10000 if v > 1000, else v/100 if
\* v > 100, else v/100 if v > 50, else v/10 if v > 20, else v, and the copy
\* in src/crawler/utils.py returns the same on every input.
C12_RatioNormalization ==
    Normalized => /\ fout.utils = StatedRatio(fin.value)
                  /\ fout.crawler = fout.utils

\* 75 has been normalized to 0.75 by both copies
C12_Witness ==
    /\ Normalized /\ fin.value = 7500
    /\ fout.utils = 750000 /\ fout.crawler = 750000

\* C13: a raw ratio in [0.01, 1000] is rendered, after normalization, as a
\* value in [0.01, 10].
C13_PostNormalizationRange ==
    (Normalized /\ fin.value >= 1 /\ fin.value <= 100000)
    => (fout.report >= 10000 /\ fout.report <= 10000000)

ChangeParsed == Applied /\ fin.group = "change"

\* the change the cell states: its magnitude, signed by its marker
StatedChange ==
    IF fin.marker \in {<<"DOWN">>, <<"-">>} THEN 0 - fin.magnitude.value
    ELSE fin.magnitude.value

\* C14: a price-change cell of an optional direction marker and a magnitude
\* parses to +magnitude for the rise glyph or '+', to -magnitude for the
\* fall glyph or '-', and to the magnitude for a plain number.
C14_SignedNumber ==
    ChangeParsed => /\ fout.futures = StatedChange
                    /\ fout.pc_ratio = StatedChange

\* the part of C14 that holds: a cell that starts with a glyph
C14_GlyphCells ==
    (ChangeParsed /\ fin.marker \in {<<"UP">>, <<"DOWN">>})
    => /\ fout.futures = StatedChange
       /\ fout.pc_ratio = StatedChange

CellParsed == Applied /\ fin.group = "cell"

\* the two numbers the cell states
StatedCell == [traders |-> fin.outer.value, specific |-> fin.inner.value]

\* C15: a cell outer(inner), with or without a line break between the two
\* parts, parses to the outer number and the number in parentheses as two
\* independent values.
C15_ParenthesizedSubNumber ==
    CellParsed => /\ fout.primary = StatedCell
                  /\ fout.backup = StatedCell

\* the part of C15 that holds: the number in parentheses in both functions,
\* and the outer number in get_top_traders_data when a line break follows it
C15_InnerAndFirstLine ==
    CellParsed => /\ fout.primary.specific = fin.inner.value
                  /\ fout.backup.specific = fin.inner.value
                  /\ (fin.sep = <<"NL">> =>
                          fout.primary.traders = fin.outer.value)

BiasComputed == Applied /\ fin.group = "bias"

\* both closes were extracted: neither is the default 0
BothExtracted ==
    fin.tx.kind = "ok" /\ fin.tx.close > 0 /\ fin.taiex_close > 0

\* C16: the bias is futures_close - index_close when both closes were
\* extracted and 0 otherwise, in both get_futures_data functions.
C16_Basis ==
    BiasComputed
    => LET stated == IF BothExtracted THEN fin.tx.close - fin.taiex_close
                     ELSE 0
       IN  fout.futures = stated /\ fout.pc_ratio = stated

\* the part of C16 that holds: get_futures_data of crawler/futures.py
C16_FuturesModuleBasis ==
    BiasComputed
    => fout.futures = IF BothExtracted THEN fin.tx.close - fin.taiex_close
                      ELSE 0

DateResolved == Applied /\ fin.group = "date"

\* the most recent trading day whose session has closed at time now
LatestClosedSession(now) ==
    LET w == weekday(now.day)
    IN  IF w >= 5 THEN now.day - (w - 4)
        ELSE IF now.slot = "closed" THEN now.day
        ELSE IF w = 0 THEN now.day - 3
        ELSE now.day - 1

\* C20: get_tw_stock_date returns the most recent trading day whose session
\* has closed: today from 13:30 on a weekday, the previous weekday before
\* that (before 9:00 included), the preceding Friday on a weekend.
C20_LatestClosedSession ==
    DateResolved => fout.date = LatestClosedSession(fin.now)

\* the part of C20 that holds: every time but the hours before 9:00
C20_FromTheOpenOn ==
    (DateResolved /\ fin.now.slot # "preopen")
    => fout.date = LatestClosedSession(fin.now)

----------------------------------------------------------------------------
(* Claims about the pipeline, checked under Spec *)

\* C1: the collection holds at most one report per trading date.
C1_OneReportPerDate ==
    \A r1 \in market_reports, r2 \in market_reports :
        r1.date = r2.date => r1._id = r2._id

\* the run of thread t has done its upstream fetches and has not returned
InFlightFetched(t) == pc[t] \in {"save", "update_one", "upsert", "consecutive"}

\* C2: of two runs in flight for the same trading date only one has
\* performed the upstream fetches.
C2_SingleFlight ==
    \A t1 \in Threads, t2 \in Threads :
        (t1 # t2 /\ InFlightFetched(t1) /\ InFlightFetched(t2))
        => local[t1].date # local[t2].date

\* C3: no extraction failure aborts a run: a run that returns has assembled
\* its report, whatever the sources served.
C3_NoExtractionAbort ==
    \A t \in Threads : pc[t] = "returned" => local[t].market_data # None

\* what fetch_market_data returns to its caller
ReturnValue(t) == local[t].report_id

\* the report was assembled and save_market_report returned None
SaveFailed(t) ==
    pc[t] = "returned" /\ local[t].market_data # None /\ local[t].report_id = None

\* C6: when saving fails the caller is told so, other than by the None an
\* extraction failure gives, and is handed the assembled report.
C6_SaveFailureSurfaced ==
    \A t \in Threads :
        SaveFailed(t) =>
            /\ ReturnValue(t) # None
            /\ ReturnValue(t) = local[t].market_data

\* the metric and derived values of a stored report
Metrics(r) ==
    [f \in DOMAIN r \ {"_id", "created_at", "updated_at", "is_pushed",
                       "push_time"} |-> r[f]]

StatedRetailIndicator(dealer_net, trust_net, foreign_net, open_interest) ==
    ((0 - (dealer_net + trust_net + foreign_net)) * 100)
        \div (IF open_interest > 1 THEN open_interest ELSE 1)

\* C17: the stored retail ratios equal -(dealer_net + trust_net +
\* foreign_net) / max(open_interest, 1) * 100 of the positions the run
\* extracted for the contract.  The run extracts the foreign net position of
\* the small contract (foreign_mtx_net) and nothing else of the two
\* contracts; what is not extracted counts as its default 0.
C17_RetailIndicator ==
    \A r \in market_reports :
        /\ r.market_indicators.mtx_retail_ratio =
              StatedRetailIndicator(0, 0, r.futures_positions.foreign_mtx_net, 0)
        /\ r.market_indicators.xmtx_retail_ratio =
              StatedRetailIndicator(0, 0, 0, 0)

\* C18: every run that has started its fetches finishes: it returns to its
\* caller.
C18_RunFinishes ==
    \A t \in Threads :
        (pc[t] = "fetch") ~> (pc[t] \in {"returned", "done"})

\* the part of C18 that holds: runs finish when every request is answered
\* or fails
C18_FinishesWhenAnswered ==
    \A t \in Threads :
        (pc[t] = "fetch" /\ upstream # <<"silent", "silent">>)
            ~> (pc[t] \in {"returned", "done"})

\* a step that performs the fetches of a run or writes a report
RunStep ==
    \/ \E t \in Threads : pc[t] = "fetch" /\ pc'[t] # "fetch"
    \/ market_reports' # market_reports

\* C19: no run on a weekend: on a Saturday or Sunday neither thread performs
\* the fetches or writes a report.
C19_NoWeekendRun == [][RunStep => weekday(clock.day) < 5]_vars

\* the part of C19 that holds: the scheduled task starts no fetch when it
\* wakes on a weekend
C19_ScheduledTaskSkipsWeekend ==
    [][(pc["task"] = "sleep" /\ pc'["task"] = "fetch")
          => weekday(clock.day) < 5]_vars

\* the documents the sites serve for the date a stored report is keyed by
DocsOfDate(r) == Served(upstream)[r.date]

\* C26: every metric value stored in the report for date d was extracted
\* from an upstream document for that same date d: a VIX, a foreign option
\* net or a top-trader net other than the default 0 is the value the sites
\* hold for d.
C26_DateConsistency ==
    \A r \in market_reports :
        /\ r.market_indicators.vix # 0
              => /\ DocsOfDate(r).vix.kind = "ok"
                 /\ r.market_indicators.vix = DocsOfDate(r).vix.vix
        /\ r.futures_positions.foreign_call_net # 0
              => /\ DocsOfDate(r).opt_primary.kind = "ok"
                 /\ r.futures_positions.foreign_call_net
                        = DocsOfDate(r).opt_primary.call
        /\ r.futures_positions.top10_specific_net # 0
              => /\ DocsOfDate(r).top_primary.kind = "ok"
                 /\ r.futures_positions.top10_specific_net
                        = DocsOfDate(r).top_primary.specific

\* the part of C26 that holds: the index and the institutional sums of a
\* report are those of its own date
C26_IndexOfItsDate ==
    \A r \in market_reports :
        /\ r.taiex.close # 0
              => /\ DocsOfDate(r).taiex.kind = "ok"
                 /\ r.taiex.close = DocsOfDate(r).taiex.close
        /\ r.institutional.foreign # 0
              => /\ DocsOfDate(r).institutional.kind = "ok"
                 /\ r.institutional.foreign = DocsOfDate(r).institutional.foreign

\* the trading day before d
PrevTradingDay(d) ==
    IF weekday(d - 1) < 5 THEN d - 1
    ELSE IF weekday(d - 2) < 5 THEN d - 2 ELSE d - 3

SameDirection(a, b) == (a > 0 /\ b > 0) \/ (a < 0 /\ b < 0)

RECURSIVE RunOfDays(_, _, _)
\* the number of consecutive stored trading days, ending with d, on which
\* the net value of investor f has the direction of  net
RunOfDays(d, f, net) ==
    IF d < -1 \/ ~\E r \in WithDate(d) : SameDirection(r.institutional[f], net)
    THEN 0
    ELSE 1 + RunOfDays(PrevTradingDay(d), f, net)

\* the counter the documentation states for investor f of report r
StatedConsecutiveDays(r, f) ==
    LET net == r.institutional[f]
    IN  IF net > 0 THEN RunOfDays(r.date, f, net)
        ELSE 0 - RunOfDays(r.date, f, net)

\* thread t has come back from update_consecutive_days with its report
\* saved, and no other run is in progress
CountersUpdated(t) ==
    /\ pc[t] = "returned"
    /\ local[t].report_id # None
    /\ \A o \in Threads \ {t} : pc[o] \in {"idle", "sleep", "done"}

\* C27: after update_consecutive_days the counter of each investor in the
\* latest report is positive for net buying, negative for net selling, and
\* its magnitude is the number of consecutive stored trading days, ending
\* with the report's date, with a net value of the same direction.
C27_ConsecutiveDays ==
    \A t \in Threads : \A r \in market_reports :
        (/\ CountersUpdated(t)
         /\ r._id = local[t].report_id
         /\ \A o \in market_reports : o.date <= r.date)
        => /\ r.institutional.foreign # 0
                => r.institutional.foreign_consecutive_days
                       = StatedConsecutiveDays(r, "foreign")
           /\ r.institutional.investment_trust # 0
                => r.institutional.investment_trust_consecutive_days
                       = StatedConsecutiveDays(r, "investment_trust")
           /\ r.institutional.dealer # 0
                => r.institutional.dealer_consecutive_days
                       = StatedConsecutiveDays(r, "dealer")

\* the report for date d is marked pushed in the given collection
MarkedPushed(reports, d) ==
    \E r \in reports : r.date = d /\ r.is_pushed /\ r.push_time # None

C25_OtherDatesKept ==
    [][\A d \in Days :
          (/\ MarkedPushed(market_reports, d)
           /\ \A t \in Threads : pc[t] = "upsert" /\ pc'[t] # "upsert"
                                    => local[t].market_data.date # d)
          => MarkedPushed(market_reports', d)]_vars

----------------------------------------------------------------------------
(* Claims about the bot (SpecBot, SpecPush) *)

\* the groups a report is pushed to: active with auto_push
PushGroups ==
    {g \in DOMAIN fin.groups :
        fin.groups[g].status = "active" /\ fin.groups[g].auto_push}

\* the scheduled task has ended with its report saved
TaskSavedAndEnded == pc["task"] = "done" /\ local["task"].report_id # None

\* C21: after a successful fetch the scheduled task has pushed the report to
\* every active group with auto_push, and the report is then marked pushed;
\* with at least one such group at least one push of the report is made.
C21_PushDelivers ==
    TaskSavedAndEnded
    => /\ \A g \in PushGroups :
             \E m \in fout : m.to = g /\ m.text.kind = "full_report"
       /\ PushGroups # {}
             => \E r \in market_reports :
                   r._id = local["task"].report_id /\ r.is_pushed

IsAdminEvent(e) == e.source_type = "user" /\ e.source_id \in ADMIN_USER_IDS

\* thread t is started in this step
Started(t) == pc[t] = "idle" /\ pc'[t] # "idle"

\* C22: the background fetch is started only by a manual-update command, and
\* the background push only by the push command, of a one-to-one user source
\* whose id is in ADMIN_USER_IDS; for any other source the handler answers
\* an admin command with the admin-only warning and starts no thread.
C22_AdminOnly ==
    [][LET h == local'["handle_message"]
       IN  /\ Started("background_fetch")
                => /\ IsAdminEvent(h.event)
                   /\ h.event.text \in {"#gengxinchouma", "#shoudonggengxin"}
           /\ Started("background_push")
                => /\ IsAdminEvent(h.event)
                   /\ h.event.text = "#tuisong"
           /\ (/\ h # local["handle_message"]
               /\ h.event.text \in {"#gengxinchouma", "#shoudonggengxin",
                                    "#tuisong"}
               /\ ~IsAdminEvent(h.event))
                => /\ h.replies = <<Text("admin_only")>>
                   /\ pc' = pc]_vars

\* the admin has started a fetch and a group has been refused one
C22_Witness ==
    /\ pc["background_fetch"] # "idle"
    /\ local["handle_message"].replies = <<Text("admin_only")>>
    /\ local["handle_message"].event.source_type = "group"

\* the last event was answered with the text of a report
ReportDelivered ==
    /\ local["handle_message"].replies # <<>>
    /\ local["handle_message"].replies[1].kind = "full_report"

\* the source of event e has an active record
HasActiveRecord(e) ==
    IF e.source_type = "user" THEN fin.users[e.source_id] = "active"
    ELSE fin.groups[e.source_id].status = "active"

\* C23: with the database connected, a report command is answered with the
\* report only if the permission check ended with the source authorized, and
\* a source without an active record receives no report.
C23_PermissionGate ==
    (fin.db_connected /\ ReportDelivered)
    => /\ local["handle_message"].authorized = TRUE
       /\ HasActiveRecord(local["handle_message"].event)

\* the part of C23 that holds: with the database connected a group or room
\* that is answered with the report has been authorized
C23_GroupsAuthorized ==
    (/\ fin.db_connected
     /\ ReportDelivered
     /\ local["handle_message"].event.source_type # "user")
    => local["handle_message"].authorized = TRUE

\* C24: reply_message is called at most once for an event, and the threads
\* of the admin commands send with push_message only: a step that makes a
\* push_message call adds no reply.
C24_ReplyOnce ==
    /\ [](Len(local["handle_message"].replies) <= 1)
    /\ [][fout' # fout
            => local'["handle_message"] = local["handle_message"]]_vars

\* an event has its one reply and the admin's thread has pushed its messages
C24_Witness ==
    /\ Len(local["handle_message"].replies) = 1
    /\ local["handle_message"].event.text = "choumakuaibao"
    /\ pc["background_fetch"] = "done"
    /\ \E m \in fout : m.text = Text("ask_push")

====
